---- MODULE Spec2Model ----
(***************************************************************************)
(* A model of the .blend reader of readBlend.py / readDNA.py /             *)
(* BinFileUtils.py.                                                        *)
(*                                                                         *)
(* Strings are sequences of one-character strings, so that the regular     *)
(* expressions, rstrip, int() and string concatenation of the source can   *)
(* be computed.  A byte is a digit in base Radix; an integer of w bytes    *)
(* has Radix^w values, and int.from_bytes is computed on the digits.       *)
(* Python's None is the record None; a dict is a function on its keys.     *)
(***************************************************************************)
EXTENDS Integers, Sequences, FiniteSets, TLC

VARIABLES
    hostOrder,        \* sys.byteorder
    header,           \* the first 12 characters of the stream
    pos,              \* the stream position, f.tell()
    pc,               \* position of processFile
    exc,              \* the exception that ended processFile, or NoExc
    fileHeader,       \* BlenderFile.__fileHeader
    blockHeaders,     \* BlenderFile.__blockHeaders
    headersByType,    \* BlenderFile.__headersByType (code -> indices into blockHeaders)
    headersByAddress, \* BlenderFile.__headersByAddress (address -> index into blockHeaders)
    thumbnailImage,   \* BlenderFile.__thumbnailImage
    renderData,       \* BlenderFile.__renderData
    dna,              \* BlenderFile.__dna: Unset until a DNA1 block is scanned
    dnaIn,            \* the payload the SDNA decoder was last run on, and its block
    scanEnd,          \* what ended the block-header scan
    idx,              \* index of the block the running loop is at
    heap,             \* every StructMember object created so far
    build,            \* the frame of the running __buildStruct loop
    otherImages,      \* BlenderFile.otherImages
    fixupLocals       \* the locals of __fixupBlocks that outlive an iteration

vars == <<hostOrder, header, pos, pc, exc, fileHeader, blockHeaders, headersByType,
          headersByAddress, thumbnailImage, renderData, dna, dnaIn, scanEnd, idx,
          heap, build, otherImages, fixupLocals>>

----------------------------------------------------------------------------
(* Bounds of the model *)

Radix == 8
MaxBlocks == 2

----------------------------------------------------------------------------
(* Python values *)

None == [none |-> TRUE]
EmptyDict == [k \in {} |-> 0]
NoExc == "none"
Unset == [unset |-> TRUE]
NUL == "\\0"

Max(a, b) == IF a >= b THEN a ELSE b

RECURSIVE Pow(_, _)
Pow(b, e) == IF e = 0 THEN 1 ELSE b * Pow(b, e - 1)

RECURSIVE Reverse(_)
Reverse(s) == IF s = <<>> THEN <<>> ELSE Reverse(Tail(s)) \o <<Head(s)>>

RECURSIVE SumSeq(_)
SumSeq(s) == IF s = <<>> THEN 0 ELSE Head(s) + SumSeq(Tail(s))

RECURSIVE Product(_)
Product(s) == IF s = <<>> THEN 1 ELSE Head(s) * Product(Tail(s))

\* seq[i] with Python's indexing: 0-based, negative indices count from the end
PyInRange(s, i) == -Len(s) <= i /\ i < Len(s)
PyIndex(s, i) == IF i >= 0 THEN s[i + 1] ELSE s[Len(s) + i + 1]

----------------------------------------------------------------------------
(* BinFileUtils.py *)

RECURSIVE UnsignedLE(_)
UnsignedLE(bytes) ==
    IF bytes = <<>> THEN 0 ELSE Head(bytes) + Radix * UnsignedLE(Tail(bytes))

from_bytes(bytes, byteorder, signed) ==
    LET u == IF byteorder = "little" THEN UnsignedLE(bytes)
             ELSE UnsignedLE(Reverse(bytes))
        full == Pow(Radix, Len(bytes))
    IN  IF signed /\ Len(bytes) > 0 /\ 2 * u >= full THEN u - full ELSE u

getInt(bytes) == from_bytes(bytes, hostOrder, TRUE)

getUint(bytes) == from_bytes(bytes, hostOrder, FALSE)

\* the bytes a writer on a machine of the given byte order stores for n
RECURSIVE DigitsLE(_, _)
DigitsLE(u, w) ==
    IF w = 0 THEN <<>> ELSE <<u % Radix>> \o DigitsLE(u \div Radix, w - 1)

Encode(n, w, byteorder) ==
    LET u == n % Pow(Radix, w)
    IN  IF byteorder = "little" THEN DigitsLE(u, w) ELSE Reverse(DigitsLE(u, w))

padUp4(p) == ((p + 3) \div 4) * 4

check4(tag, theString) == IF tag # theString THEN None ELSE theString

----------------------------------------------------------------------------
(* String literals of the source *)

sENDB == <<"E", "N", "D", "B">>
sDNA1 == <<"D", "N", "A", "1">>
sREND == <<"R", "E", "N", "D">>
sTEST == <<"T", "E", "S", "T">>
sSDNA == <<"S", "D", "N", "A">>
sNAME == <<"N", "A", "M", "E">>
sTYPE == <<"T", "Y", "P", "E">>
sTLEN == <<"T", "L", "E", "N">>
sSTRC == <<"S", "T", "R", "C">>

Digits == <<"0", "1", "2", "3", "4", "5", "6", "7", "8", "9">>

IsDigit(c) == \E i \in 1..10 : Digits[i] = c

DigitVal(c) == (CHOOSE i \in 1..10 : Digits[i] = c) - 1

RECURSIVE DecimalValue(_)
DecimalValue(s) ==
    IF s = <<>> THEN 0
    ELSE 10 * DecimalValue(SubSeq(s, 1, Len(s) - 1)) + DigitVal(s[Len(s)])

Whitespace == {" ", "\t", "\n", "\r"}

RECURSIVE LStrip(_)
LStrip(s) == IF s # <<>> /\ Head(s) \in Whitespace THEN LStrip(Tail(s)) ELSE s

Strip(s) == Reverse(LStrip(Reverse(LStrip(s))))

\* int(s) of Python: surrounding whitespace, an optional sign, decimal digits
\* with single underscores between them.  [ok |-> FALSE] is ValueError.
pyInt(s) ==
    LET t == Strip(s)
        signed == t # <<>> /\ Head(t) \in {"+", "-"}
        body == IF signed THEN Tail(t) ELSE t
        wellFormed ==
            /\ body # <<>>
            /\ \A i \in 1..Len(body) :
                  \/ IsDigit(body[i])
                  \/ /\ body[i] = "_"
                     /\ 1 < i /\ i < Len(body)
                     /\ IsDigit(body[i - 1]) /\ IsDigit(body[i + 1])
        magnitude == DecimalValue(SelectSeq(body, IsDigit))
    IN  IF ~wellFormed THEN [ok |-> FALSE, v |-> 0]
        ELSE [ok |-> TRUE,
              v |-> IF signed /\ Head(t) = "-" THEN -magnitude ELSE magnitude]

\* bytes.rstrip of the NUL character
RECURSIVE rstripNUL(_)
rstripNUL(s) ==
    IF s # <<>> /\ s[Len(s)] = NUL THEN rstripNUL(SubSeq(s, 1, Len(s) - 1)) ELSE s

----------------------------------------------------------------------------
(* BlenderFile.__verifyFileHeader: the dictionary it leaves in __fileHeader *)
(* and the ERROR it printed before returning, if any.                       *)

verifyFileHeader(h, host) ==
    LET magic == SubSeq(h, 1, 7)
        pointerSizeCode == h[8]
        pointerSize == IF pointerSizeCode = "_" THEN 4 ELSE 8
        endianCode == h[9]
        byteorder == IF endianCode = "v" THEN "little" ELSE "big"
        version == pyInt(SubSeq(h, 10, 12))
        fh1 == ("pointerSize" :> pointerSize) @@ EmptyDict
        fh2 == ("byteOrder" :> byteorder) @@ fh1
        fh3 == ("version" :> version.v) @@ fh2
    IN  IF magic # <<"B", "L", "E", "N", "D", "E", "R">> THEN [fh |-> EmptyDict, error |-> "magic"]
        ELSE IF pointerSizeCode # "-" /\ pointerSizeCode # "_"
             THEN [fh |-> EmptyDict, error |-> "pointerSizeCode"]
        ELSE IF endianCode # "V" /\ endianCode # "v"
             THEN [fh |-> fh1, error |-> "endianCode"]
        ELSE IF byteorder # host THEN [fh |-> fh1, error |-> "byteorder"]
        ELSE IF ~version.ok THEN [fh |-> fh2, error |-> "version"]
        ELSE [fh |-> fh3, error |-> "none"]

----------------------------------------------------------------------------
(* readDNA.py: the SDNA decoder *)

sbScreen == <<"b", "S", "c", "r", "e", "e", "n">>

\* the renaming without its third case
renameWithoutCollectionObject(name) ==
    IF name = sbScreen THEN <<"S", "c", "r", "e", "e", "n">>
    ELSE IF name = <<"C", "o", "l", "l", "e", "c", "t", "i", "o", "n">>
    THEN <<"G", "r", "o", "u", "p">>
    ELSE name

DNA_struct_rename_legacy_hack_static_from_alias(name) ==
    IF name = sbScreen THEN <<"S", "c", "r", "e", "e", "n">>
    ELSE IF name = <<"C", "o", "l", "l", "e", "c", "t", "i", "o", "n">>
    THEN <<"G", "r", "o", "u", "p">>
    ELSE IF name = <<"C", "o", "l", "l", "e", "c", "t", "i", "o", "n",
                     "O", "b", "j", "e", "c", "t">>
    THEN <<"G", "r", "o", "u", "p", "O", "b", "j", "e", "c", "t">>
    ELSE name

\* bytes of a block of NUL-terminated strings
StringBytes(strings) == SumSeq([i \in 1..Len(strings) |-> Len(strings[i]) + 1])

\* __getStringBlock on a section <tag, count, strings>: the list it returns
\* (None on a tag mismatch) and the stream position it stops at.  postProc
\* tells whether it was given its one postProc function, the renaming
getStringBlock(p0, tag, type, strings, postProc) ==
    IF check4(tag, type) = None THEN [v |-> None, end |-> p0 + 4]
    ELSE [v |-> [i \in 1..Len(strings) |->
                    IF postProc
                    THEN DNA_struct_rename_legacy_hack_static_from_alias(strings[i])
                    ELSE strings[i]],
          end |-> p0 + 8 + StringBytes(strings)]

\* __getStructures on a section <tag, count, structs>
StructBytes(structs) ==
    SumSeq([i \in 1..Len(structs) |-> 4 + 4 * Len(structs[i].members)])

getStructures(p0, tag, structs) ==
    IF check4(tag, sSTRC) = None THEN [v |-> None, end |-> p0 + 4]
    ELSE LET theStructs ==
                 [i \in 1..Len(structs) |->
                     [type |-> getInt(structs[i].type),
                      members |->
                          [j \in 1..Len(structs[i].members) |->
                              <<getInt(structs[i].members[j][1]),
                                getInt(structs[i].members[j][2])>>]]]
         IN  [v |-> IF Len(theStructs) > 0 THEN theStructs ELSE None,
              end |-> p0 + 8 + StructBytes(structs)]

\* BlenderDNA(f) as constructed
NewDNA == [allNames |-> <<>>, allTypes |-> <<>>, allTypeLengths |-> <<>>,
           allStructs |-> <<>>]

\* BlenderDNA.processDNA on payload p starting at stream position p0:
\* the decoder object afterwards and the position the stream is left at
processDNA(p, p0) ==
    LET nm == getStringBlock(p0 + 4, p.tagNAME, sNAME, p.names, FALSE)
        d1 == [NewDNA EXCEPT !.allNames = nm.v]
        ty == getStringBlock(padUp4(nm.end), p.tagTYPE, sTYPE, p.types, TRUE)
        d2 == [d1 EXCEPT !.allTypes = ty.v]
        tl == padUp4(ty.end)
        lens == [i \in 1..Len(ty.v) |-> getInt(p.lens[i])]
        d3 == [d2 EXCEPT !.allTypeLengths = lens]
        st == getStructures(padUp4(tl + 4 + 2 * Len(ty.v)), p.tagSTRC, p.structs)
        d4 == [d3 EXCEPT !.allStructs = st.v]
    IN  IF check4(p.tagSDNA, sSDNA) = None THEN [dna |-> NewDNA, end |-> p0 + 4]
        ELSE IF nm.v = None \/ Len(nm.v) = 0 THEN [dna |-> d1, end |-> nm.end]
        ELSE IF ty.v = None \/ Len(ty.v) = 0 THEN [dna |-> d2, end |-> ty.end]
        ELSE IF check4(p.tagTLEN, sTLEN) = None THEN [dna |-> d2, end |-> tl + 4]
        ELSE [dna |-> d4, end |-> st.end]

----------------------------------------------------------------------------
(* The input: what the stream holds where the reader reads it. *)

sDATA == <<"D", "A", "T", "A">>
sint == <<"i", "n", "t">>
sLink == <<"L", "i", "n", "k">>

Hosts == {"little", "big"}

Headers ==
    { <<"B", "L", "E", "N", "D", "E", "R", "-", "v", "3", "0", "0">>,
      <<"B", "L", "E", "N", "D", "E", "R", "_", "V", "2", "7", "9">>,
      <<"B", "L", "A", "N", "D", "E", "R", "-", "v", "3", "0", "0">>,
      <<"B", "L", "E", "N", "D", "E", "R", "+", "v", "3", "0", "0">>,
      <<"B", "L", "E", "N", "D", "E", "R", "-", "x", "3", "0", "0">>,
      <<"B", "L", "E", "N", "D", "E", "R", "-", "v", "3", ".", "0">> }

\* block headers, by the values their fields encode
HeaderSamples ==
    [code : {sDATA}, length : {8}, address : {0, 1}, structCode : {-1, 0, 1, 5},
     count : {-1, 0, 1}]
    \cup [code : {<<"O", "B", NUL, NUL>>}, length : {4}, address : {2}, structCode : {1}, count : {2}]
    \cup [code : {sREND}, length : {0}, address : {2}, structCode : {0}, count : {0}]
    \cup [code : {sREND}, length : {144}, address : {1}, structCode : {0}, count : {2}]
    \cup [code : {sTEST}, length : {8, 12}, address : {2}, structCode : {0}, count : {1}]
    \cup [code : {sREND}, length : {72}, address : {2}, structCode : {0}, count : {2}]
    \cup [code : {sDATA}, length : {-24, -20}, address : {1}, structCode : {0}, count : {0}]

\* DNA1 payloads: names "*next", "x"; types int, Link, bScreen; structs
\* Link { Link *next; } and bScreen { int x; }; cut short by one wrong tag
\* or by an empty table
GoodTags == [tagSDNA |-> sSDNA, tagNAME |-> sNAME, tagTYPE |-> sTYPE,
             tagTLEN |-> sTLEN, tagSTRC |-> sSTRC]

TagSamples ==
    {GoodTags} \cup {[GoodTags EXCEPT ![t] = <<"X", "X", "X", "X">>] : t \in DOMAIN GoodTags}

DnaContent(host, nNames, nStructs) ==
    LET e2(n) == Encode(n, 2, host)
    IN  [names |-> SubSeq(<<<<"*", "n", "e", "x", "t">>, <<"x">>>>, 1, nNames),
         types |-> <<sint, sLink, sbScreen>>,
         lens |-> <<e2(4), e2(8), e2(4)>>,
         structs |-> SubSeq(<<[type |-> e2(1), members |-> << <<e2(1), e2(0)>> >>],
                              [type |-> e2(2), members |-> << <<e2(0), e2(1)>> >>]>>,
                            1, nStructs)]

DnaPayloads(host) ==
    {t @@ DnaContent(host, 2, 2) : t \in TagSamples}
    \cup {GoodTags @@ DnaContent(host, 0, 2), GoodTags @@ DnaContent(host, 2, 0)}

\* REND records: start frame, end frame, 64 bytes of scene name
PadNUL(str, n) == str \o [i \in 1..(n - Len(str)) |-> NUL]

RendSamples(host) ==
    {[sframe |-> Encode(1, 4, host), eframe |-> Encode(250, 4, host),
      scene |-> PadNUL(<<"M", "a", "i", "n">>, 64)]}

\* the bytes the DNA1 data p takes in a file that holds it from position p0
DnaLength(p, p0) ==
    LET namesEnd == p0 + 12 + StringBytes(p.names)
        typesEnd == padUp4(namesEnd) + 8 + StringBytes(p.types)
        lensEnd == padUp4(typesEnd) + 4 + 2 * Len(p.types)
    IN  padUp4(lensEnd) + 8 + StructBytes(p.structs) - p0

\* processDNA on well-tagged data p that the end of the file cuts short of
\* the NUL of the last string of section cut: getString (BinFileUtils.py,
\* lines 25-29) is given '' by every f.read(1) from there on and '' is
\* not the NUL it waits for.  The decoder object and the stream position
\* its loop goes on with
processDNAatEOF(p, p0, cut) ==
    LET namesEnd == p0 + 12 + StringBytes(p.names)
        typesEnd == padUp4(namesEnd) + 8 + StringBytes(p.types)
    IN  IF cut = "NAME" THEN [dna |-> NewDNA, end |-> namesEnd - 1]
        ELSE [dna |-> [NewDNA EXCEPT !.allNames = p.names], end |-> typesEnd - 1]

----------------------------------------------------------------------------
(* BlenderFile *)

\* topblock, idtype and idsubtype of __fixupBlocks before any is bound;
\* topblock is bound to [block |-> b] for the header of block number b
NoLocals == [topblock |-> Unset, idtype |-> Unset, idsubtype |-> Unset]

Init ==
    /\ hostOrder \in Hosts
    /\ header \in Headers
    /\ pos = 0
    /\ pc = "verify"
    /\ exc = NoExc
    /\ fileHeader = EmptyDict
    /\ blockHeaders = <<>>
    /\ headersByType = EmptyDict
    /\ headersByAddress = EmptyDict
    /\ thumbnailImage = None
    /\ renderData = <<>>
    /\ dna = Unset
    /\ dnaIn = None
    /\ scanEnd = "none"
    /\ idx = 0
    /\ heap = <<>>
    /\ build = None
    /\ otherImages = <<>>
    /\ fixupLocals = NoLocals

\* an exception leaves processFile
Raise(e) == pc' = "raised" /\ exc' = e

\* processFile, line 147: whatever __verifyFileHeader printed, the scan is next
VerifyFileHeader ==
    /\ pc = "verify"
    /\ fileHeader' = verifyFileHeader(header, hostOrder).fh
    /\ pos' = 12
    /\ pc' = "scan"
    /\ UNCHANGED <<hostOrder, header, exc, blockHeaders, headersByType,
                   headersByAddress, thumbnailImage, renderData, dna, dnaIn,
                   scanEnd, idx, heap, build, otherImages, fixupLocals>>

\* __getBlockHeader on a complete header, with the two keys __saveBlockHeaders
\* adds to it at once
getBlockHeader(rawCode, rawLength, rawPointer, rawStructCode, rawCount, filePos) ==
    [blockCode |-> rstripNUL(rawCode),
     blockLength |-> getInt(rawLength),
     oldPointer |-> getUint(rawPointer),
     structCode |-> getInt(rawStructCode),
     numberOfStructs |-> getInt(rawCount),
     references |-> [quickRefs |-> {}, referringMembers |-> <<>>],
     memberSpecs |-> <<>>,
     processed |-> FALSE,
     filePos |-> filePos]

ReadHeader(h, filePos) ==
    getBlockHeader(h.code, Encode(h.length, 4, hostOrder),
                   Encode(h.address, fileHeader["pointerSize"], hostOrder),
                   Encode(h.structCode, 4, hostOrder),
                   Encode(h.count, 4, hostOrder), filePos)

HeaderSize == 16 + fileHeader["pointerSize"]

\* lines 289-293 with the append to the by-code list moved under the test
\* of line 289
StoreFirstOfCode(data) ==
    LET n == Len(blockHeaders) + 1
        code == data.blockCode
    IN  /\ headersByType' = IF code \in DOMAIN headersByType THEN headersByType
                            ELSE (code :> <<n>>) @@ headersByType
        /\ headersByAddress' = (data.oldPointer :> n) @@ headersByAddress
        /\ blockHeaders' = Append(blockHeaders, data)

\* lines 289-293
Store(data) ==
    LET n == Len(blockHeaders) + 1
        code == data.blockCode
        old == IF code \in DOMAIN headersByType THEN headersByType[code] ELSE <<>>
    IN  /\ headersByType' = (code :> Append(old, n)) @@ headersByType
        /\ headersByAddress' = (data.oldPointer :> n) @@ headersByAddress
        /\ blockHeaders' = Append(blockHeaders, data)

\* line 238 with no 'pointerSize' in __fileHeader
ScanKeyError ==
    /\ pc = "scan"
    /\ "pointerSize" \notin DOMAIN fileHeader
    /\ Raise("KeyError: 'pointerSize'")
    /\ UNCHANGED <<hostOrder, header, pos, fileHeader, blockHeaders,
                   headersByType, headersByAddress, thumbnailImage,
                   renderData, dna, dnaIn, scanEnd, idx, heap, build,
                   otherImages, fixupLocals>>

\* a short read: __getBlockHeader returns None and the loop ends
ScanTruncated ==
    /\ pc = "scan"
    /\ "pointerSize" \in DOMAIN fileHeader
    /\ scanEnd' = "EOF"
    /\ pc' = "pass1"
    /\ idx' = 0
    /\ UNCHANGED <<hostOrder, header, pos, exc, fileHeader, blockHeaders,
                   headersByType, headersByAddress, thumbnailImage,
                   renderData, dna, dnaIn, heap, build, otherImages,
                   fixupLocals>>

ScanENDB ==
    /\ pc = "scan"
    /\ "pointerSize" \in DOMAIN fileHeader
    /\ \E h \in [code : {sENDB}, length : {0}, address : {0}, structCode : {0},
                 count : {0}] :
          /\ ReadHeader(h, pos + HeaderSize).blockCode = sENDB
          /\ pos' = pos + HeaderSize
    /\ scanEnd' = "ENDB"
    /\ pc' = "pass1"
    /\ idx' = 0
    /\ UNCHANGED <<hostOrder, header, exc, fileHeader, blockHeaders,
                   headersByType, headersByAddress, thumbnailImage,
                   renderData, dna, dnaIn, heap, build, otherImages,
                   fixupLocals>>

\* a DNA1 block: the decoder runs on the payload and the stream stays where
\* the decoder left it.  The block holds extra bytes after its STRC section;
\* when the file ends inside the strings of section cut, getString never
\* returns: pc = "getString" is its loop, which nothing leaves
ScanDNA1 ==
    /\ pc = "scan"
    /\ "pointerSize" \in DOMAIN fileHeader
    /\ Len(blockHeaders) < MaxBlocks
    /\ \E p \in DnaPayloads(hostOrder), extra \in {0, 4}, cut \in {"none", "NAME", "TYPE"} :
          LET filePos == pos + HeaderSize
              h == [code |-> sDNA1, length |-> DnaLength(p, filePos) + extra,
                    address |-> 3, structCode |-> 0, count |-> 1]
              data == ReadHeader(h, filePos)
              r == processDNA(p, filePos)
              eof == processDNAatEOF(p, filePos, cut)
          IN  IF cut = "none"
              THEN /\ UNCHANGED pc
                   /\ dnaIn' = [payload |-> p, block |-> Len(blockHeaders) + 1]
                   /\ dna' = r.dna
                   /\ pos' = r.end
                   /\ Store([data EXCEPT !.processed = TRUE])
              ELSE /\ extra = 0
                   /\ \A t \in DOMAIN GoodTags : p[t] = GoodTags[t]
                   /\ Len(p.names) > 0
                   /\ pc' = "getString"
                   /\ pos' = eof.end
                   /\ dna' = eof.dna
                   /\ UNCHANGED <<dnaIn, blockHeaders, headersByType, headersByAddress>>
    /\ UNCHANGED <<hostOrder, header, exc, fileHeader, thumbnailImage,
                   renderData, scanEnd, idx, heap, build, otherImages,
                   fixupLocals>>

\* any other block: the payload is skipped
ScanBlock ==
    /\ pc = "scan"
    /\ "pointerSize" \in DOMAIN fileHeader
    /\ Len(blockHeaders) < MaxBlocks
    /\ \E h \in HeaderSamples :
          LET filePos == pos + HeaderSize
              data == ReadHeader(h, filePos)
          IN  /\ data.blockCode \notin {sENDB, sDNA1}
              /\ IF filePos + data.blockLength < 0
                 THEN /\ Raise("OSError: seek")
                      /\ UNCHANGED <<pos, blockHeaders, headersByType, headersByAddress>>
                 ELSE /\ pos' = filePos + data.blockLength
                      /\ Store(data)
                      /\ UNCHANGED <<pc, exc>>
    /\ UNCHANGED <<hostOrder, header, fileHeader, thumbnailImage, renderData,
                   dna, dnaIn, scanEnd, idx, heap, build, otherImages,
                   fixupLocals>>

----------------------------------------------------------------------------
(* BlenderFile.__processBlockData: one action per iteration of its loop *)

InPass == pc \in {"pass1", "pass2"}

AtBlock == InPass /\ idx \in 1..Len(blockHeaders)

\* lines 449-451: self.__dna exists only once a DNA1 block was scanned
PassBegin ==
    /\ InPass
    /\ idx = 0
    /\ IF dna = Unset
       THEN Raise("AttributeError: __dna") /\ UNCHANGED idx
       ELSE idx' = 1 /\ UNCHANGED <<pc, exc>>
    /\ UNCHANGED <<hostOrder, header, pos, fileHeader, blockHeaders,
                   headersByType, headersByAddress, thumbnailImage,
                   renderData, dna, dnaIn, scanEnd, heap, build, otherImages,
                   fixupLocals>>

\* lines 453-454
PassSkipProcessed ==
    /\ AtBlock
    /\ blockHeaders[idx].processed
    /\ idx' = idx + 1
    /\ UNCHANGED <<hostOrder, header, pos, pc, exc, fileHeader, blockHeaders,
                   headersByType, headersByAddress, thumbnailImage,
                   renderData, dna, dnaIn, scanEnd, heap, build, otherImages,
                   fixupLocals>>

\* lines 458-469 without the test of line 453: the render records of a
\* block are read whether it is processed or not
PassRENDProcessedToo ==
    /\ AtBlock
    /\ blockHeaders[idx].blockCode = sREND
    /\ LET block == blockHeaders[idx]
           count == Max(block.numberOfStructs, 0)
       IN  /\ \E recs \in [1..count -> RendSamples(hostOrder)] :
                 renderData' = renderData \o
                     [i \in 1..count |->
                         [startFrame |-> getInt(recs[i].sframe),
                          endFrame |-> getInt(recs[i].eframe),
                          sceneName |-> rstripNUL(recs[i].scene)]]
           /\ pos' = block.filePos + 72 * count
    /\ blockHeaders' = [blockHeaders EXCEPT ![idx].processed = TRUE]
    /\ idx' = idx + 1
    /\ UNCHANGED <<hostOrder, header, pc, exc, fileHeader, headersByType,
                   headersByAddress, thumbnailImage, dna, dnaIn, scanEnd,
                   heap, build, otherImages, fixupLocals>>

\* lines 458-469
PassREND ==
    /\ AtBlock
    /\ ~blockHeaders[idx].processed
    /\ blockHeaders[idx].blockCode = sREND
    /\ LET block == blockHeaders[idx]
           count == Max(block.numberOfStructs, 0)
       IN  /\ \E recs \in [1..count -> RendSamples(hostOrder)] :
                 renderData' = renderData \o
                     [i \in 1..count |->
                         [startFrame |-> getInt(recs[i].sframe),
                          endFrame |-> getInt(recs[i].eframe),
                          sceneName |-> rstripNUL(recs[i].scene)]]
           /\ pos' = block.filePos + 72 * count
    /\ blockHeaders' = [blockHeaders EXCEPT ![idx].processed = TRUE]
    /\ idx' = idx + 1
    /\ UNCHANGED <<hostOrder, header, pc, exc, fileHeader, headersByType,
                   headersByAddress, thumbnailImage, dna, dnaIn, scanEnd,
                   heap, build, otherImages, fixupLocals>>

\* Image.frombytes('RGBA', (width, height), data) of the imaging library, by
\* the number of bytes it is given: it fails on too few bytes, and what it
\* does with any other buffer that is not width*height*4 bytes is its own
frombytes(width, height, size) ==
    IF width >= 0 /\ height >= 0 /\ size = 4 * width * height THEN {"image"}
    ELSE IF width >= 0 /\ height >= 0 /\ size > 4 * width * height
         THEN {"image", "ValueError"}
    ELSE {"ValueError"}

\* lines 470-476
PassTEST ==
    /\ AtBlock
    /\ ~blockHeaders[idx].processed
    /\ blockHeaders[idx].blockCode = sTEST
    /\ LET block == blockHeaders[idx]
           dataLength == block.blockLength
       IN  \E rawW \in {Encode(1, 4, hostOrder)}, rawH \in {Encode(1, 4, hostOrder)},
              size \in {Max(dataLength - 8, 0)} :
              \E got \in frombytes(getInt(rawW), getInt(rawH), size) :
                  /\ pos' = block.filePos + 8 + size
                  /\ IF got = "image"
                     THEN /\ thumbnailImage' =
                                 [width |-> getInt(rawW), height |-> getInt(rawH)]
                          /\ blockHeaders' =
                                 [blockHeaders EXCEPT ![idx].processed = TRUE]
                          /\ idx' = idx + 1
                          /\ UNCHANGED <<pc, exc>>
                     ELSE /\ Raise("ValueError: frombytes")
                          /\ UNCHANGED <<thumbnailImage, blockHeaders, idx>>
    /\ UNCHANGED <<hostOrder, header, fileHeader, headersByType,
                   headersByAddress, renderData, dna, dnaIn, scanEnd, heap,
                   build, otherImages, fixupLocals>>

\* Struct(block, stype, name) with no member yet
NewStruct(stype, mname) == [stype |-> stype, name |-> mname, members |-> <<>>]

\* the frame of a __buildStruct call on member specs mspecs, for the instances
\* slist built so far of block number b
NewBuild(b, mspecs, slist) ==
    [block |-> b, daspecs |-> mspecs, slist |-> slist, mi |-> 1,
     outStruct |-> NewStruct(<<"(", "g", "e", "n", "e", "r", "a", "t", "e", "d", ")">>,
                             <<>>),
     outMember |-> 0, lastRead |-> [member |-> 0, raws |-> <<>>]]

\* lines 477-489, up to the first call of __buildStruct: what becomes of a
\* block that is neither REND nor TEST
\*   "continue"   the block cannot be processed
\*   an exception in looking up structs[scode] and its type name
\*   "empty"      no instance to build: an empty payload
\*   "sdna"       __buildStruct on the SDNA definition of stype
\*   "mspecs"     __buildStruct on the block's member specs
blockDataOutcome(block, d) ==
    LET scode == block.structCode
        daspecs == block.memberSpecs
        structs == d.allStructs
        types == d.allTypes
    IN  IF scode = 0 /\ Len(daspecs) = 0 THEN "continue"
        ELSE IF structs = None THEN "TypeError: structs[scode]"
        ELSE IF ~PyInRange(structs, scode) THEN "IndexError: structs[scode]"
        ELSE IF types = None THEN "TypeError: types[dastruct[0]]"
        ELSE IF ~PyInRange(types, PyIndex(structs, scode).type)
             THEN "IndexError: types[dastruct[0]]"
        ELSE IF block.numberOfStructs <= 0 THEN "empty"
        ELSE IF Len(daspecs) = 0 THEN "sdna"
        ELSE "mspecs"

\* lines 387-393 of __buildStruct with no member specs: BlenderDNA has the
\* accessors getNames, getTypes, getTypeLengths and getStructs and no other
getStructCodesByType(d) == "AttributeError: getStructCodesByType"

PassData ==
    /\ AtBlock
    /\ ~blockHeaders[idx].processed
    /\ blockHeaders[idx].blockCode \notin {sREND, sTEST}
    /\ LET block == blockHeaders[idx]
           what == blockDataOutcome(block, dna)
       IN  /\ pos' = block.filePos
           /\ CASE what = "continue" ->
                     /\ idx' = idx + 1
                     /\ UNCHANGED <<pc, exc, blockHeaders, build>>
                [] what = "empty" ->
                     /\ blockHeaders' =
                           [blockHeaders EXCEPT
                               ![idx] = ("structData" :> <<>>)
                                        @@ [block EXCEPT !.processed = TRUE]]
                     /\ idx' = idx + 1
                     /\ UNCHANGED <<pc, exc, build>>
                [] what = "sdna" ->
                     /\ Raise(getStructCodesByType(dna))
                     /\ UNCHANGED <<idx, blockHeaders, build>>
                [] what = "mspecs" ->
                     /\ build' = NewBuild(idx, block.memberSpecs, <<>>)
                     /\ pc' = IF pc = "pass1" THEN "build1" ELSE "build2"
                     /\ UNCHANGED <<exc, idx, blockHeaders>>
                [] OTHER ->
                     /\ Raise(what)
                     /\ UNCHANGED <<idx, blockHeaders, build>>
    /\ UNCHANGED <<hostOrder, header, fileHeader, headersByType,
                   headersByAddress, thumbnailImage, renderData, dna, dnaIn,
                   scanEnd, heap, otherImages, fixupLocals>>

\* the loop is over: processFile goes on
PassEnd ==
    /\ InPass
    /\ idx = Len(blockHeaders) + 1
    /\ pc' = IF pc = "pass1" THEN "fixup" ELSE "done"
    /\ idx' = IF pc = "pass1" THEN 1 ELSE 0
    /\ UNCHANGED <<hostOrder, header, pos, exc, fileHeader, blockHeaders,
                   headersByType, headersByAddress, thumbnailImage,
                   renderData, dna, dnaIn, scanEnd, heap, build, otherImages,
                   fixupLocals>>

----------------------------------------------------------------------------
(* The member-name patterns (lines 131-134) *)

Letters ==
    {"a", "b", "c", "d", "e", "f", "g", "h", "i", "j", "k", "l", "m", "n", "o", "p",
     "q", "r", "s", "t", "u", "v", "w", "x", "y", "z", "A", "B", "C", "D", "E", "F",
     "G", "H", "I", "J", "K", "L", "M", "N", "O", "P", "Q", "R", "S", "T", "U", "V",
     "W", "X", "Y", "Z"}

DigitChars == {Digits[i] : i \in 1..10}

\* \w
WordChars == Letters \cup DigitChars \cup {"_"}

\* the length of the longest prefix of s made of characters of set S
RECURSIVE SpanLen(_, _)
SpanLen(s, S) == IF s # <<>> /\ Head(s) \in S THEN 1 + SpanLen(Tail(s), S) ELSE 0

Drop(s, n) == SubSeq(s, n + 1, Len(s))

\* (?:\[\d+\])+ at the start of s, as the integers between the brackets:
\* cdim[1:-1].split(']['), each through int()
RECURSIVE DimGroups(_)
DimGroups(s) ==
    IF s # <<>> /\ Head(s) = "["
    THEN LET d == SpanLen(Tail(s), DigitChars)
         IN  IF d > 0 /\ Len(s) >= d + 2 /\ s[d + 2] = "]"
             THEN <<DecimalValue(SubSeq(s, 2, d + 1))>> \o DimGroups(Drop(s, d + 2))
             ELSE <<>>
    ELSE <<>>

\* pat.match(name): (?P<ptr>[*]*)(?P<cname>\w+)(?P<cdim>(?:\[\d+\])+)?
pat(name) ==
    LET stars == SpanLen(name, {"*"})
        rest == Drop(name, stars)
        w == SpanLen(rest, WordChars)
    IN  IF w = 0 THEN [matched |-> FALSE]
        ELSE [matched |-> TRUE, ptr |-> SubSeq(name, 1, stars),
              cname |-> SubSeq(rest, 1, w), dimensions |-> DimGroups(Drop(rest, w))]

\* pat2.match(name): (?P<fptr>\(\*\w+\))\(\)
pat2(name) ==
    LET w == SpanLen(Drop(name, 2), WordChars)
    IN  /\ Len(name) >= 2 /\ name[1] = "(" /\ name[2] = "*"
        /\ w > 0
        /\ Len(name) >= w + 5
        /\ SubSeq(name, w + 3, w + 5) = <<")", "(", ")">>

----------------------------------------------------------------------------
(* BlenderFile.__getSingleValue and __getArrayValue *)

schar == <<"c", "h", "a", "r">>
suchar == <<"u", "c", "h", "a", "r">>
sshort == <<"s", "h", "o", "r", "t">>
sushort == <<"u", "s", "h", "o", "r", "t">>
slong == <<"l", "o", "n", "g">>
sulong == <<"u", "l", "o", "n", "g">>
sfloat == <<"f", "l", "o", "a", "t">>
sdouble == <<"d", "o", "u", "b", "l", "e">>
sint64_t == <<"i", "n", "t", "6", "4", "_", "t">>
suint64_t == <<"u", "i", "n", "t", "6", "4", "_", "t">>
svoid == <<"v", "o", "i", "d">>

basicTypes ==
    {schar, suchar, sshort, sushort, sint, slong, sulong, sfloat, sdouble, sint64_t,
     suint64_t, svoid}

\* the values a member holds
IntValue(n) == [k |-> "int", v |-> n]
FloatValue(raw) == [k |-> "float", v |-> raw]
StrValue(chars) == [k |-> "str", v |-> chars]
BytesValue(raw) == [k |-> "bytes", v |-> raw]
NoneValue == [k |-> "None", v |-> 0]
ListValue(vs) == [k |-> "list", v |-> vs]
\* Pointer(int) and the block index its pointsTo was given, 0 when none
PointerValue(n, b) == [k |-> "ptr", pointedTo |-> b, v |-> n]

\* the byte that is no valid UTF-8
BadByte == "\\xff"

\* the number of bytes one call of __getSingleValue reads
singleReadSize(mtype, dimensions, isPointer, psize) ==
    IF isPointer THEN psize
    ELSE IF mtype = schar THEN (IF Len(dimensions) = 0 THEN 1 ELSE dimensions[1])
    ELSE IF mtype = suchar THEN 1
    ELSE IF mtype = sshort THEN 2
    ELSE IF mtype = sushort THEN 2
    ELSE IF mtype = sint THEN 4
    ELSE IF mtype = sulong THEN 4
    ELSE IF mtype = sint64_t THEN 8
    ELSE IF mtype = suint64_t THEN 8
    ELSE IF mtype = sfloat THEN 4
    ELSE IF mtype = sdouble THEN 8
    ELSE 0

\* the value one call of __getSingleValue makes of the bytes raw it read,
\* for a simple type or a pointer; hdrs is the address index
getSingleValue(mtype, dimensions, isPointer, raw, hdrs) ==
    IF isPointer
    THEN LET ptr == getUint(raw)
         IN  PointerValue(ptr, IF ptr \in DOMAIN hdrs THEN hdrs[ptr] ELSE 0)
    ELSE IF mtype = schar
    THEN IF Len(dimensions) = 0 THEN IntValue(getInt(raw))
         ELSE LET nulidx == SpanLen(raw, {c \in {raw[i] : i \in 1..Len(raw)} : c # NUL})
                  rs == SubSeq(raw, 1, nulidx)
              IN  IF \E i \in 1..Len(rs) : rs[i] = BadByte THEN BytesValue(raw)
                  ELSE StrValue(rs)
    ELSE IF mtype = suchar THEN IntValue(getUint(raw))
    ELSE IF mtype = sshort THEN IntValue(getInt(raw))
    ELSE IF mtype = sushort THEN IntValue(getUint(raw))
    ELSE IF mtype = sint THEN IntValue(getInt(raw))
    ELSE IF mtype = sulong THEN IntValue(getUint(raw))
    ELSE IF mtype = sint64_t THEN IntValue(getInt(raw))
    ELSE IF mtype = suint64_t THEN IntValue(getInt(raw))
    ELSE IF mtype = sfloat THEN FloatValue(raw)
    ELSE IF mtype = sdouble THEN FloatValue(raw)
    ELSE NoneValue

\* the nested list __getArrayValue makes of the values of its calls of
\* __getSingleValue, taken in the order of the calls
RECURSIVE getArrayValue(_, _)
getArrayValue(dimensions, elems) ==
    IF Len(dimensions) = 1 THEN ListValue(elems)
    ELSE LET m == Product(Tail(dimensions))
         IN  ListValue([i \in 1..dimensions[1] |->
                          getArrayValue(Tail(dimensions),
                                        SubSeq(elems, (i - 1) * m + 1, i * m))])

\* the quick-ref string of line 312
QuickRef(stype, mtype, name) == stype \o <<"|">> \o mtype \o <<" ">> \o name

\* lines 306-313 for the pointers elems read in turn by member smember of a
\* struct of type stype: the block headers with the back-references added
RECURSIVE addReferences(_, _, _, _, _, _)
addReferences(hdrs, elems, stype, mtype, name, smember) ==
    IF elems = <<>> THEN hdrs
    ELSE LET b == Head(elems).pointedTo
             refs == hdrs[b].references
             added == [quickRefs |-> refs.quickRefs \cup {QuickRef(stype, mtype, name)},
                       referringMembers |-> Append(refs.referringMembers, smember)]
         IN  addReferences(IF b = 0 THEN hdrs ELSE [hdrs EXCEPT ![b].references = added],
                           Tail(elems), stype, mtype, name, smember)

----------------------------------------------------------------------------
(* BlenderFile.__buildStruct on member specs: one action per iteration of *)
(* the loop of lines 399-439                                              *)

InBuild == pc \in {"build1", "build2"} /\ build # None

AtMember == InBuild /\ build.mi \in 1..Len(build.daspecs)

\* StructMember(mtype, name, dimensions, isSimpleType, isPointer, pstruct);
\* pstruct is the instance-th Struct of block number block
StructMember(mtype, name, dimensions, isSimpleType, isPointer, pstruct) ==
    [mtype |-> mtype, name |-> name, dimensions |-> dimensions,
     isSimpleType |-> isSimpleType, isPointer |-> isPointer, value |-> NoneValue,
     parentStruct |-> pstruct]

\* what the stream may hold where one call of __getSingleValue reads
PointerSamples == {0, 2, 5}

RawSamples(mtype, dimensions, isPointer, size) ==
    IF isPointer THEN {Encode(a, size, hostOrder) : a \in PointerSamples}
    ELSE IF mtype = schar /\ Len(dimensions) > 0
    THEN {SubSeq(PadNUL(<<"a">>, size + 1), 1, size),
          SubSeq(PadNUL(<<BadByte>>, size + 1), 1, size)}
    ELSE {Encode(1, size, hostOrder), Encode(-1, size, hostOrder)}

\* lines 406-429: the member name matches pat
MemberPrincipal ==
    /\ AtMember
    /\ LET mtype == build.daspecs[build.mi][1]
           name == build.daspecs[build.mi][2]
           damatch == pat(name)
       IN
       /\ damatch.matched
       /\ LET isSimpleType == mtype \in basicTypes
              isPointer == damatch.ptr # <<>>
              dimensions == damatch.dimensions
              single == Len(dimensions) = 0 \/ (Len(dimensions) = 1 /\ mtype = schar)
              calls == IF single THEN 1 ELSE Product(dimensions)
              inner == IF single THEN dimensions
                       ELSE SubSeq(dimensions, Len(dimensions), Len(dimensions))
              size == singleReadSize(mtype, inner, isPointer, fileHeader["pointerSize"])
              pstruct == <<build.block, Len(build.slist) + 1>>
              outMember == StructMember(mtype, name, dimensions, isSimpleType,
                                        isPointer, pstruct)
              id == Len(heap) + 1
          IN
          IF ~isPointer /\ ~isSimpleType /\ calls > 0
          THEN \* line 323: __buildStruct on the SDNA definition of mtype
               /\ heap' = Append(heap, outMember)
               /\ Raise(getStructCodesByType(dna))
               /\ UNCHANGED <<pos, blockHeaders, build>>
          ELSE \E raws \in [1..calls -> RawSamples(mtype, inner, isPointer, size)] :
               LET elems == [i \in 1..calls |->
                                getSingleValue(mtype, inner, isPointer, raws[i],
                                               headersByAddress)]
                   value == IF single THEN elems[1]
                            ELSE getArrayValue(dimensions, elems)
               IN  /\ heap' = Append(heap, [outMember EXCEPT !.value = value])
                   /\ blockHeaders' =
                         IF isPointer
                         THEN addReferences(blockHeaders, elems, build.outStruct.stype,
                                            mtype, name, id)
                         ELSE blockHeaders
                   /\ pos' = pos + calls * size
                   /\ build' = [build EXCEPT
                                   !.outStruct.members = Append(@, id),
                                   !.outMember = id,
                                   !.mi = @ + 1,
                                   !.lastRead = [member |-> id, raws |-> raws]]
                   /\ UNCHANGED <<pc, exc>>
    /\ UNCHANGED <<hostOrder, header, fileHeader, headersByType,
                   headersByAddress, thumbnailImage, renderData, dna, dnaIn,
                   scanEnd, idx, otherImages, fixupLocals>>

\* lines 431-437: the member name matches pat2 only.  outMember is the
\* member of the iteration before, and unbound in the first iteration.
MemberFunctionPointer ==
    /\ AtMember
    /\ LET mtype == build.daspecs[build.mi][1]
           name == build.daspecs[build.mi][2]
           psize == fileHeader["pointerSize"]
           outMember == build.outMember
       IN
       /\ ~pat(name).matched
       /\ pat2(name)
       /\ IF outMember = 0
          THEN /\ Raise("UnboundLocalError: outMember")
               /\ UNCHANGED <<pos, heap, blockHeaders, build>>
          ELSE \E raw \in RawSamples(mtype, <<>>, TRUE, psize) :
               LET value == getSingleValue(mtype, <<>>, TRUE, raw, headersByAddress)
               IN  /\ blockHeaders' =
                         addReferences(blockHeaders, <<value>>, build.outStruct.stype,
                                       mtype, name, outMember)
                   /\ heap' = [heap EXCEPT ![outMember].value = value,
                                           ![outMember].isPointer = TRUE]
                   /\ pos' = pos + psize
                   /\ build' = [build EXCEPT
                                   !.outStruct.members = Append(@, outMember),
                                   !.mi = @ + 1,
                                   !.lastRead = [member |-> outMember, raws |-> <<raw>>]]
                   /\ UNCHANGED <<pc, exc>>
    /\ UNCHANGED <<hostOrder, header, fileHeader, headersByType,
                   headersByAddress, thumbnailImage, renderData, dna, dnaIn,
                   scanEnd, idx, otherImages, fixupLocals>>

\* line 439: neither pattern matches; the member is passed over
MemberUnparsed ==
    /\ AtMember
    /\ ~pat(build.daspecs[build.mi][2]).matched
    /\ ~pat2(build.daspecs[build.mi][2])
    /\ build' = [build EXCEPT !.mi = @ + 1,
                             !.lastRead = [member |-> 0, raws |-> <<>>]]
    /\ UNCHANGED <<hostOrder, header, pos, pc, exc, fileHeader, blockHeaders,
                   headersByType, headersByAddress, thumbnailImage,
                   renderData, dna, dnaIn, scanEnd, idx, heap, otherImages,
                   fixupLocals>>

\* lines 441-443 and 486-489: the instance is complete; the next one is
\* built, or the list is stored on the block
BuildEnd ==
    /\ InBuild
    /\ build.mi = Len(build.daspecs) + 1
    /\ LET slist == Append(build.slist, build.outStruct)
           block == blockHeaders[build.block]
       IN  IF Len(slist) < block.numberOfStructs
           THEN /\ build' = NewBuild(build.block, build.daspecs, slist)
                /\ UNCHANGED <<pc, idx, blockHeaders>>
           ELSE /\ blockHeaders' =
                      [blockHeaders EXCEPT
                          ![build.block] = ("structData" :> slist)
                                           @@ [block EXCEPT !.processed = TRUE]]
                /\ build' = None
                /\ pc' = IF pc = "build1" THEN "pass1" ELSE "pass2"
                /\ idx' = idx + 1
    /\ UNCHANGED <<hostOrder, header, pos, exc, fileHeader, headersByType,
                   headersByAddress, thumbnailImage, renderData, dna, dnaIn,
                   scanEnd, heap, otherImages, fixupLocals>>

----------------------------------------------------------------------------
(* BlenderFile.__fixupBlocks: one action per iteration of its loop *)

\* str(n) of an integer
RECURSIVE pyStrNat(_)
pyStrNat(n) ==
    IF n < 10 THEN <<Digits[n + 1]>> ELSE pyStrNat(n \div 10) \o <<Digits[(n % 10) + 1]>>

pyStr(n) == IF n < 0 THEN <<"-">> \o pyStrNat(-n) ELSE pyStrNat(n)

qPaintToolSlots == <<"P", "a", "i", "n", "t", "|", "P", "a", "i", "n", "t", "T", "o", "o", "l", "S", "l", "o", "t", " ", "*", "t", "o", "o", "l", "_", "s", "l", "o", "t", "s">>
qObjectMat == <<"O", "b", "j", "e", "c", "t", "|", "M", "a", "t", "e", "r", "i", "a", "l", " ", "*", "*", "m", "a", "t">>
qMeshMat == <<"M", "e", "s", "h", "|", "M", "a", "t", "e", "r", "i", "a", "l", " ", "*", "*", "m", "a", "t">>
qObjectMatbits == <<"O", "b", "j", "e", "c", "t", "|", "c", "h", "a", "r", " ", "*", "m", "a", "t", "b", "i", "t", "s">>
qConsoleLine == <<"C", "o", "n", "s", "o", "l", "e", "L", "i", "n", "e", "|", "c", "h", "a", "r", " ", "*", "l", "i", "n", "e">>


\* lines 502-516: the rules that read only the quick-refs and the length
\* of the block; the member specs they leave on the header
lengthRuleSpecs(hdr, pts) ==
    LET blockLength == hdr.blockLength
        refs == hdr.references.quickRefs
    IN  IF qPaintToolSlots \in refs
        THEN << <<<<"P", "a", "i", "n", "t", "T", "o", "o", "l", "S", "l", "o", "t">>,
                  <<"*", "t", "o", "o", "l", "_", "s", "l", "o", "t", "s", "[">> \o pyStr(blockLength \div pts) \o <<"]">> >> >>
        ELSE IF qObjectMat \in refs \/ qMeshMat \in refs
        THEN IF blockLength = pts THEN << <<<<"M", "a", "t", "e", "r", "i", "a", "l">>, <<"*", "*", "m", "a", "t">> >> >>
             ELSE hdr.memberSpecs
        ELSE IF qObjectMatbits \in refs
        THEN << <<suchar, <<"m", "a", "t", "b", "i", "t", "s", "[">> \o pyStr(blockLength) \o <<"]">> >> >>
        ELSE IF qConsoleLine \in refs
        THEN << <<schar, <<"l", "i", "n", "e", "[">> \o pyStr(blockLength) \o <<"]">> >> >>
        ELSE hdr.memberSpecs

\* line 498: a header is passed over when it is processed
FixupSkip ==
    /\ pc = "fixup"
    /\ idx \in 1..Len(blockHeaders)
    /\ blockHeaders[idx].processed
    /\ idx' = idx + 1
    /\ UNCHANGED <<hostOrder, header, pos, pc, exc, fileHeader, blockHeaders,
                   headersByType, headersByAddress, thumbnailImage,
                   renderData, dna, dnaIn, scanEnd, heap, build, otherImages,
                   fixupLocals>>

nType == <<"t", "y", "p", "e">>
nSubtype == <<"s", "u", "b", "t", "y", "p", "e">>
nW2 == <<"w", "[", "2", "]">>
nH2 == <<"h", "[", "2", "]">>
nRect2 == <<"*", "r", "e", "c", "t", "[", "2", "]">>

MinOf(S) == CHOOSE x \in S : \A y \in S : x <= y

\* mem.parentStruct of the StructMember with handle id
parentStruct(id) ==
    blockHeaders[heap[id].parentStruct[1]].structData[heap[id].parentStruct[2]]

\* the positions in smembers of the members of a struct of type stype
ofStructType(smembers, stype) ==
    {i \in 1..Len(smembers) : parentStruct(smembers[i]).stype = stype}

\* value == n for an integer n: Pointer is an int, a list or None is not
pyEqualsInt(value, n) == value.k \in {"int", "ptr"} /\ value.v = n

\* lines 519-530: cdtype
customDataType(smembers) ==
    LET at == ofStructType(smembers,
                           <<"C", "u", "s", "t", "o", "m", "D", "a", "t",
                             "a", "L", "a", "y", "e", "r">>)
    IN  IF at = {} THEN IntValue(1000)
        ELSE LET ps == parentStruct(smembers[MinOf(at)])
                 tm == {j \in 1..Len(ps.members) :
                           /\ heap[ps.members[j]].mtype = sint
                           /\ heap[ps.members[j]].name = nType}
             IN  IF tm = {} THEN IntValue(1000)
                 ELSE heap[ps.members[MinOf(tm)]].value

\* lines 545-556: pm.value[0], pm.value[1] of the int members called name
RECURSIVE previewValues(_, _)
previewValues(members, name) ==
    IF members = <<>> THEN <<>>
    ELSE (IF heap[Head(members)].mtype = sint /\ heap[Head(members)].name = name
          THEN SubSeq(heap[Head(members)].value.v, 1, 2)
          ELSE <<>>)
         \o previewValues(Tail(members), name)

\* f'0x{n:016x}'
HexChars ==
    <<"0", "1", "2", "3", "4", "5", "6", "7", "8", "9", "a", "b", "c", "d", "e", "f">>

RECURSIVE hex(_, _)
hex(n, w) ==
    IF w <= 1 /\ n < 16 THEN <<HexChars[n + 1]>>
    ELSE hex(n \div 16, w - 1) \o <<HexChars[(n % 16) + 1]>>

ourName(oldPointer) == <<"0", "x">> \o hex(oldPointer, 16)

\* lines 536-565: what the PreviewImage rule finds for the header: an
\* exception, no image to make, or the width and height of the image
previewRule(hdr, smembers) ==
    LET at == ofStructType(smembers, <<"P", "r", "e", "v", "i", "e", "w", "I", "m", "a", "g", "e">>)
        members == IF at = {} THEN <<>>
                   ELSE parentStruct(smembers[MinOf(at)]).members
        read == {j \in 1..Len(members) :
                    /\ heap[members[j]].mtype = sint
                    /\ heap[members[j]].name \in {nW2, nH2, nRect2}}
        imWidth == previewValues(members, nW2)
        imHeight == previewValues(members, nH2)
        imData == previewValues(members, nRect2)
        index == IF imData = <<>> THEN -1
                 ELSE IF hdr.oldPointer = imData[1].v THEN 0
                 ELSE IF hdr.oldPointer = imData[2].v THEN 1
                 ELSE -1
    IN  IF \E j \in read : heap[members[j]].value.k # "list"
        THEN [exc |-> "TypeError: pm.value[0]"]
        ELSE IF \E j \in read : Len(heap[members[j]].value.v) < 2
        THEN [exc |-> "IndexError: pm.value[1]"]
        ELSE IF index < 0 THEN [exc |-> NoExc, index |-> index]
        ELSE IF Len(imWidth) <= index THEN [exc |-> "IndexError: imWidth[index]"]
        ELSE IF Len(imHeight) <= index THEN [exc |-> "IndexError: imHeight[index]"]
        ELSE [exc |-> NoExc, index |-> index,
              width |-> imWidth[index + 1].v, height |-> imHeight[index + 1].v]

\* lines 590-607: the locals after the IDPropertyData rule has looked for
\* the type and subtype, and the first of them it read unbound, if any
idPropertyRule(smembers) ==
    LET at == ofStructType(smembers,
                           <<"I", "D", "P", "r", "o", "p", "e", "r", "t",
                             "y", "D", "a", "t", "a">>)
        topblock == IF at = {} THEN fixupLocals.topblock
                    ELSE [block |-> heap[smembers[MinOf(at)]].parentStruct[1]]
        tops == blockHeaders[topblock.block].structData[1]
        chars(name) == {j \in 1..Len(tops.members) :
                           /\ heap[tops.members[j]].mtype = schar
                           /\ heap[tops.members[j]].name = name}
        last(S) == heap[tops.members[CHOOSE x \in S : \A y \in S : x >= y]].value
        idtype == IF chars(nType) = {} THEN fixupLocals.idtype
                  ELSE last(chars(nType))
        idsubtype == IF chars(nSubtype) = {} THEN IntValue(-1)
                     ELSE last(chars(nSubtype))
    IN  IF topblock = Unset
        THEN [exc |-> "UnboundLocalError: topblock", locals |-> fixupLocals,
              isString |-> FALSE]
        ELSE IF tops.stype # <<"I", "D", "P", "r", "o", "p", "e", "r", "t", "y">>
        THEN [exc |-> NoExc, locals |-> [fixupLocals EXCEPT !.topblock = topblock],
              isString |-> FALSE]
        ELSE [exc |-> IF idtype = Unset THEN "UnboundLocalError: idtype" ELSE NoExc,
              locals |-> [topblock |-> topblock, idtype |-> idtype,
                          idsubtype |-> idsubtype],
              isString |-> /\ idtype # Unset
                           /\ pyEqualsInt(idtype, 0)
                           /\ pyEqualsInt(idsubtype, 0)]

\* lines 612-619: a referring member of a bNodeSocket that has a short
\* member called type
socketTypeFound(smembers) ==
    \E i \in ofStructType(smembers, <<"b", "N", "o", "d", "e", "S", "o", "c", "k", "e", "t">>) :
        \E j \in 1..Len(parentStruct(smembers[i]).members) :
            /\ heap[parentStruct(smembers[i]).members[j]].mtype = sshort
            /\ heap[parentStruct(smembers[i]).members[j]].name = nType

\* the iteration leaves member specs on the header
FixupSpecs(mspecs) ==
    /\ blockHeaders' = [blockHeaders EXCEPT ![idx].memberSpecs = mspecs]
    /\ idx' = idx + 1
    /\ UNCHANGED <<pos, pc, exc, heap, otherImages>>

\* the iteration raises
FixupRaise(e) ==
    /\ Raise(e)
    /\ UNCHANGED <<pos, idx, blockHeaders, heap, otherImages>>

\* lines 566-587: the image is made and described by a Struct
FixupPreview(hdr, found) ==
    IF found.exc # NoExc THEN FixupRaise(found.exc)
    ELSE IF found.index < 0
    THEN /\ blockHeaders' = [blockHeaders EXCEPT ![idx].processed = TRUE]
         /\ idx' = idx + 1
         /\ UNCHANGED <<pos, pc, exc, heap, otherImages>>
    ELSE \E got \in IF hdr.blockLength < 0 THEN {"image", "ValueError"}
                    ELSE frombytes(found.width, found.height, hdr.blockLength) :
            IF got # "image"
            THEN /\ Raise("ValueError: frombytes")
                 /\ pos' = hdr.filePos + Max(hdr.blockLength, 0)
                 /\ UNCHANGED <<idx, blockHeaders, heap, otherImages>>
            ELSE LET name == ourName(hdr.oldPointer)
                     nameLen == Len(name)
                     id == Len(heap)
                     member(mtype, mname, dimensions, value) ==
                         [StructMember(mtype, mname, dimensions, TRUE, FALSE,
                                       <<idx, 1>>)
                             EXCEPT !.value = value]
                     myStruct == [NewStruct(<<"r", "g", "b", "a", "I", "m", "a", "g", "e">>, <<>>)
                                     EXCEPT !.members = <<id + 1, id + 2, id + 3>>]
                 IN  /\ pos' = hdr.filePos + Max(hdr.blockLength, 0)
                     /\ otherImages' =
                           Append(otherImages,
                                  [name |-> name, width |-> found.width,
                                   height |-> found.height])
                     /\ heap' = heap \o
                           <<member(sint, <<"w", "i", "d", "t", "h">>, <<>>, IntValue(found.width)),
                             member(sint, <<"h", "e", "i", "g", "h", "t">>, <<>>, IntValue(found.height)),
                             member(schar,
                                    <<"n", "a", "m", "e", "[">> \o pyStr(nameLen)
                                        \o <<"]">>,
                                    <<nameLen>>, StrValue(name))>>
                     /\ blockHeaders' =
                           [blockHeaders EXCEPT
                               ![idx] = ("structData" :> <<myStruct>>)
                                        @@ [hdr EXCEPT !.processed = TRUE]]
                     /\ idx' = idx + 1
                     /\ UNCHANGED <<pc, exc>>

\* lines 500-636 on an unprocessed header
FixupBlock ==
    /\ pc = "fixup"
    /\ idx \in 1..Len(blockHeaders)
    /\ ~blockHeaders[idx].processed
    /\ LET hdr == blockHeaders[idx]
           blockLength == hdr.blockLength
           refs == hdr.references.quickRefs
           smembers == hdr.references.referringMembers
           qCustomData ==
               <<"C", "u", "s", "t", "o", "m", "D", "a", "t", "a", "L", "a",
                 "y", "e", "r", "|", "v", "o", "i", "d", " ", "*", "d", "a",
                 "t", "a">>
           qPreviewRect ==
               <<"P", "r", "e", "v", "i", "e", "w", "I", "m", "a", "g", "e",
                 "|", "i", "n", "t", " ", "*", "r", "e", "c", "t", "[", "2",
                 "]">>
           qIDPropertyPointer ==
               <<"I", "D", "P", "r", "o", "p", "e", "r", "t", "y", "D", "a",
                 "t", "a", "|", "v", "o", "i", "d", " ", "*", "p", "o", "i",
                 "n", "t", "e", "r">>
           qSocketDefault ==
               <<"b", "N", "o", "d", "e", "S", "o", "c", "k", "e", "t", "|",
                 "v", "o", "i", "d", " ", "*", "d", "e", "f", "a", "u", "l",
                 "t", "_", "v", "a", "l", "u", "e">>
       IN  IF refs \cap {qPaintToolSlots, qObjectMat, qMeshMat, qObjectMatbits,
                         qConsoleLine} # {}
           THEN /\ FixupSpecs(lengthRuleSpecs(hdr, fileHeader["pointerSize"]))
                /\ UNCHANGED fixupLocals
           ELSE IF qCustomData \in refs
           THEN /\ FixupSpecs(IF pyEqualsInt(customDataType(smembers), 34)
                              THEN << <<sfloat,
                                        <<"p", "a", "i", "n", "t", "M", "a", "s", "k", "[">>
                                            \o pyStr(blockLength \div 4) \o <<"]">> >> >>
                              ELSE hdr.memberSpecs)
                /\ UNCHANGED fixupLocals
           ELSE IF qPreviewRect \in refs
           THEN /\ FixupPreview(hdr, previewRule(hdr, smembers))
                /\ UNCHANGED fixupLocals
           ELSE IF qIDPropertyPointer \in refs
           THEN LET found == idPropertyRule(smembers)
                IN  /\ fixupLocals' = found.locals
                    /\ IF found.exc # NoExc THEN FixupRaise(found.exc)
                       ELSE FixupSpecs(IF found.isString
                                       THEN << <<schar,
                                                 <<"s", "t", "r", "i", "n", "g", "D", "a", "t", "a", "[">>
                                                     \o pyStr(blockLength) \o <<"]">> >> >>
                                       ELSE hdr.memberSpecs)
           ELSE IF qSocketDefault \in refs /\ socketTypeFound(smembers)
           THEN /\ FixupRaise(getStructCodesByType(dna))
                /\ UNCHANGED fixupLocals
           ELSE /\ FixupSpecs(hdr.memberSpecs)
                /\ UNCHANGED fixupLocals
    /\ UNCHANGED <<hostOrder, header, fileHeader, headersByType, headersByAddress,
                   thumbnailImage, renderData, dna, dnaIn, scanEnd, build>>

FixupEnd ==
    /\ pc = "fixup"
    /\ idx = Len(blockHeaders) + 1
    /\ pc' = "pass2"
    /\ idx' = 0
    /\ UNCHANGED <<hostOrder, header, pos, exc, fileHeader, blockHeaders,
                   headersByType, headersByAddress, thumbnailImage,
                   renderData, dna, dnaIn, scanEnd, heap, build, otherImages,
                   fixupLocals>>

----------------------------------------------------------------------------
(* BlenderFile.processFile *)

Next ==
    \/ VerifyFileHeader
    \/ ScanKeyError
    \/ ScanTruncated
    \/ ScanENDB
    \/ ScanDNA1
    \/ ScanBlock
    \/ PassBegin
    \/ PassSkipProcessed
    \/ PassREND
    \/ PassTEST
    \/ PassData
    \/ PassEnd
    \/ FixupSkip
    \/ FixupBlock
    \/ FixupEnd

Spec == Init /\ [][Next]_vars

\* where processFile is: every step of it changes this
control == <<pc, idx, Len(blockHeaders)>>

\* processFile is run to its end: a step that can be taken is taken
SpecLive == Spec /\ WF_control(Next)

----------------------------------------------------------------------------
(* The member loop of __buildStruct taken by itself: __processBlockData in *)
(* its second pass over a scanned file one block of which has member specs  *)

\* the lengths of the basic types
typeLength(mtype) ==
    IF mtype = schar THEN 1
    ELSE IF mtype = suchar THEN 1
    ELSE IF mtype = sshort THEN 2
    ELSE IF mtype = sushort THEN 2
    ELSE IF mtype = sint THEN 4
    ELSE IF mtype = slong THEN 4
    ELSE IF mtype = sulong THEN 4
    ELSE IF mtype = sfloat THEN 4
    ELSE IF mtype = sdouble THEN 8
    ELSE IF mtype = sint64_t THEN 8
    ELSE IF mtype = suint64_t THEN 8
    ELSE 0

\* the length the SDNA d gives for type mtype, 0 for a type it has not
dnaTypeLength(d, mtype) ==
    LET at == {i \in 1..Len(d.allTypes) : d.allTypes[i] = mtype}
    IN  IF at = {} THEN typeLength(mtype)
        ELSE d.allTypeLengths[CHOOSE i \in at : TRUE]

\* the bytes one member takes in the data of a block: pointers of the
\* file's pointer size, arrays of all their elements, nothing between
memberLength(d, mtype, name, psize) ==
    LET m == pat(name)
    IN  IF m.matched
        THEN (IF m.ptr # <<>> THEN psize ELSE dnaTypeLength(d, mtype))
             * Product(m.dimensions)
        ELSE IF pat2(name) THEN psize ELSE 0

structLength(d, mspecs, psize) ==
    SumSeq([i \in 1..Len(mspecs) |->
               memberLength(d, mspecs[i][1], mspecs[i][2], psize)])

\* member specs, as lists of (type, name)
SpecCatalog ==
    << <<<<sint, <<"x">>>>, <<sLink, <<"*", "n", "e", "x", "t">>>>>>,
       <<<<sint, <<"x">>>>, <<svoid, <<"(", "*", "f", "u", "n", "c", ")", "(", ")">>>>>>,
       <<<<svoid, <<"(", "*", "f", "u", "n", "c", ")", "(", ")">>>>>>,
       <<<<slong, <<"l">>>>, <<suint64_t, <<"u">>>>>>,
       <<<<schar, <<"*", "n", "a", "m", "e", "[", "2", "]">>>>>>,
       <<<<schar, <<"n", "a", "m", "e", "[", "2", "]", "[", "2", "]">>>>, <<schar, <<"c">>>>, <<schar, <<"s", "[", "2", "]">>>>>>,
       <<<<suchar, <<"a">>>>, <<sshort, <<"b">>>>, <<sushort, <<"c">>>>, <<sulong, <<"d">>>>, <<sint64_t, <<"e">>>>>>,
       <<<<sint, <<"*", "r", "e", "c", "t", "[", "2", "]">>>>, <<sint, <<"w", "[", "2", "]">>>>>>,
       <<<<sLink, <<"l", "i", "n", "k">>>>>>,
       <<<<sint, <<"a", "[", "2", "]", "[", "2", "]">>>>>>,
       <<<<sfloat, <<"f">>>>, <<sint, <<"?">>>>, <<sdouble, <<"d">>>>>> >>

SpecSamples == {SpecCatalog[i] : i \in 1..Len(SpecCatalog)}

CountSamples == {1, 2}

TargetAddresses == {0, 2}

\* the file headers that pass __verifyFileHeader on each host
StructHeader(host) ==
    IF host = "little"
    THEN <<"B", "L", "E", "N", "D", "E", "R", "-", "v", "3", "0", "0">>
    ELSE <<"B", "L", "E", "N", "D", "E", "R", "_", "V", "2", "7", "9">>

\* the block list __saveBlockHeaders makes of the file
\*   header, DNA1, DATA (address 1, struct 1, n instances), DATA (address
\*   target, struct 0), ENDB
\* the DNA1 data ending at dnaEnd, when the DATA block at address 1, of
\* length bytes, was given the member specs mspecs
ScannedBlocks(host, psize, dnaEnd, mspecs, n, length, target) ==
    LET hs == 16 + psize
        e4(x) == Encode(x, 4, host)
        b1 == [getBlockHeader(sDNA1, e4(dnaEnd - (12 + hs)), Encode(3, psize, host),
                              e4(0), e4(1), 12 + hs)
                  EXCEPT !.processed = TRUE]
        b2 == [getBlockHeader(sDATA, e4(length), Encode(1, psize, host),
                              e4(1), e4(n), dnaEnd + hs)
                  EXCEPT !.memberSpecs = mspecs]
        b3 == getBlockHeader(sDATA, e4(8), Encode(target, psize, host),
                             e4(0), e4(1), dnaEnd + hs + length + hs)
    IN  <<b1, b2, b3>>

\* the state __processBlockData starts its second pass in
InitStruct ==
    /\ hostOrder \in Hosts
    /\ header = StructHeader(hostOrder)
    /\ \E mspecs \in SpecSamples, n \in CountSamples, target \in TargetAddresses :
       \E fh \in {verifyFileHeader(header, hostOrder).fh} :
       \E payload \in {GoodTags @@ DnaContent(hostOrder, 2, 2)} :
       \E dnaPos \in {12 + 16 + fh["pointerSize"]} :
       \E r \in {processDNA(payload, dnaPos)} :
       \E length \in {n * structLength(r.dna, mspecs, fh["pointerSize"])} :
          /\ fileHeader = fh
          /\ blockHeaders = ScannedBlocks(hostOrder, fh["pointerSize"], r.end,
                                          mspecs, n, length, target)
          /\ headersByType = (sDNA1 :> <<1>>) @@ (sDATA :> <<2, 3>>)
          /\ headersByAddress = (3 :> 1) @@ (1 :> 2) @@ (target :> 3)
          /\ dna = r.dna
          /\ dnaIn = [payload |-> payload, block |-> 1]
    /\ pos = 0
    /\ pc = "pass2"
    /\ exc = NoExc
    /\ thumbnailImage = None
    /\ renderData = <<>>
    /\ scanEnd = "ENDB"
    /\ idx = 0
    /\ heap = <<>>
    /\ build = None
    /\ otherImages = <<>>
    /\ fixupLocals = NoLocals

StructNext ==
    \/ PassBegin
    \/ PassSkipProcessed
    \/ PassData
    \/ PassEnd
    \/ MemberPrincipal
    \/ MemberFunctionPointer
    \/ MemberUnparsed
    \/ BuildEnd

SpecStruct == InitStruct /\ [][StructNext]_vars

----------------------------------------------------------------------------
(* The SDNA decoder taken by itself: BlenderDNA(f).processDNA() on DNA1    *)
(* data whose NAME and TYPE strings are drawn from the renamed names, the  *)
(* names they are renamed to, and names the renaming knows nothing of      *)

MaxStrings == 2

\* the strings of a NAME or TYPE section
StringSamples ==
    {sbScreen, <<"S", "c", "r", "e", "e", "n">>,
     <<"C", "o", "l", "l", "e", "c", "t", "i", "o", "n">>, <<"G", "r", "o", "u", "p">>,
     <<"C", "o", "l", "l", "e", "c", "t", "i", "o", "n", "O", "b", "j", "e", "c", "t">>,
     <<"G", "r", "o", "u", "p", "O", "b", "j", "e", "c", "t">>, sint}

\* tables of two strings and more
StringTables(S) == UNION {[1..n -> S] : n \in 2..MaxStrings}

\* DNA1 data with the given NAME and TYPE strings, a length for every type
\* and no struct
StringPayload(names, types, host) ==
    GoodTags @@ [names |-> names, types |-> types,
                 lens |-> [i \in 1..Len(types) |-> Encode(4, 2, host)],
                 structs |-> <<>>]

InitDNA ==
    /\ hostOrder \in Hosts
    /\ header = StructHeader(hostOrder)
    /\ fileHeader = verifyFileHeader(header, hostOrder).fh
    /\ \E names \in StringTables({sbScreen, sint, <<"C", "o", "l", "l", "e", "c", "t", "i", "o", "n">>}),
          types \in StringTables(StringSamples) :
          dnaIn = [payload |-> StringPayload(names, types, hostOrder), block |-> 1]
    /\ pos = 12 + HeaderSize
    /\ pc = "dna"
    /\ exc = NoExc
    /\ blockHeaders = <<>>
    /\ headersByType = EmptyDict
    /\ headersByAddress = EmptyDict
    /\ thumbnailImage = None
    /\ renderData = <<>>
    /\ dna = Unset
    /\ scanEnd = "none"
    /\ idx = 0
    /\ heap = <<>>
    /\ build = None
    /\ otherImages = <<>>
    /\ fixupLocals = NoLocals

\* lines 282-283 of readBlend.py
DecodeDNA ==
    /\ pc = "dna"
    /\ dna' = processDNA(dnaIn.payload, pos).dna
    /\ pos' = processDNA(dnaIn.payload, pos).end
    /\ pc' = "decoded"
    /\ UNCHANGED <<hostOrder, header, exc, fileHeader, blockHeaders, headersByType,
                   headersByAddress, thumbnailImage, renderData, dnaIn, scanEnd,
                   idx, heap, build, otherImages, fixupLocals>>

\* the decoder run once more, on DNA1 data that holds the tables it loaded
DecodeAgain ==
    /\ pc = "decoded"
    /\ dna.allTypes # <<>>
    /\ \E p \in {StringPayload(dna.allNames, dna.allTypes, hostOrder)} :
          /\ dnaIn' = [payload |-> p, block |-> 1]
          /\ dna' = processDNA(p, pos).dna
          /\ pos' = processDNA(p, pos).end
    /\ pc' = "decodedAgain"
    /\ UNCHANGED <<hostOrder, header, exc, fileHeader, blockHeaders, headersByType,
                   headersByAddress, thumbnailImage, renderData, scanEnd, idx,
                   heap, build, otherImages, fixupLocals>>

DNANext == DecodeDNA \/ DecodeAgain

SpecDNA == InitDNA /\ [][DNANext]_vars

----------------------------------------------------------------------------
(* __fixupBlocks and the second pass taken by themselves, on a block list   *)
(* in which block 2 holds structs of the SDNA, materialized with the type   *)
(* names of their definitions, whose pointers refer to the unprocessed      *)
(* block 3 at old address 2                                                 *)

\* the structs of block 2, each with its members and their values
FixupSamples ==
    LET member(mtype, name, value) == [mtype |-> mtype, name |-> name, value |-> value]
        struct(stype, members) == [stype |-> stype, members |-> members]
        here == PointerValue(2, 3)
        pair(a, b) == ListValue(<<a, b>>)
        ints(a, b) == pair(IntValue(a), IntValue(b))
        socket(t) ==
            <<struct(<<"b", "N", "o", "d", "e", "S", "o", "c", "k", "e", "t">>,
                     <<member(sshort, nType, IntValue(t)),
                       member(svoid, <<"*", "d", "e", "f", "a", "u", "l", "t", "_", "v", "a", "l", "u", "e">>, here)>>)>>
        preview(w, h, rect) ==
            struct(<<"P", "r", "e", "v", "i", "e", "w", "I", "m", "a", "g", "e">>,
                   <<member(sint, nW2, w), member(sint, nH2, h),
                     member(sint, nRect2, rect)>>)
        other == PointerValue(5, 0)
    IN  {socket(t) : t \in 0..7}
        \cup {<<preview(ints(1, 2), ints(1, 2), pair(here, other))>>,
              <<preview(ints(1, 1), ints(1, 2), pair(other, here))>>,
              <<struct(<<"P", "r", "e", "v", "i", "e", "w", "I", "m", "a", "g", "e">>,
                       <<member(svoid, <<"*", "g", "p", "u", "t", "e", "x", "t", "u", "r", "e">>, here),
                         member(sint, nW2, ints(1, 1)), member(sint, nH2, ints(1, 1)),
                         member(sint, nRect2, pair(other, PointerValue(6, 0)))>>),
                preview(ints(1, 1), ints(1, 1), pair(here, other))>>,
              <<struct(<<"C", "o", "n", "s", "o", "l", "e", "L", "i", "n", "e">>, <<member(schar, <<"*", "l", "i", "n", "e">>, here)>>)>>,
              <<struct(<<"O", "b", "j", "e", "c", "t">>, <<member(schar, <<"*", "m", "a", "t", "b", "i", "t", "s">>, here)>>)>>,
              <<struct(<<"C", "u", "s", "t", "o", "m", "D", "a", "t", "a", "L", "a", "y", "e", "r">>,
                       <<member(sint, nType, IntValue(34)),
                         member(svoid, <<"*", "d", "a", "t", "a">>, here)>>)>>}

\* the StructMember objects of the structs from the s-th on, in the order
\* they were created
RECURSIVE materialized(_, _)
materialized(structs, s) ==
    IF s > Len(structs) THEN <<>>
    ELSE [j \in 1..Len(structs[s].members) |->
             LET m == structs[s].members[j]
             IN  [StructMember(m.mtype, m.name, pat(m.name).dimensions,
                               m.mtype \in basicTypes, pat(m.name).ptr # <<>>,
                               <<2, s>>)
                     EXCEPT !.value = m.value]]
         \o materialized(structs, s + 1)

\* the block headers with the back-references the pointers of the members
\* from the k-th on have left (lines 306-313)
RECURSIVE referred(_, _, _, _)
referred(hdrs, structs, members, k) ==
    IF k > Len(members) THEN hdrs
    ELSE LET m == members[k]
             elems == IF m.value.k = "list" THEN m.value.v ELSE <<m.value>>
         IN  referred(IF m.isPointer
                      THEN addReferences(hdrs, elems, structs[m.parentStruct[2]].stype,
                                         m.mtype, m.name, k)
                      ELSE hdrs,
                      structs, members, k + 1)

\* the state __fixupBlocks is called in
InitFixup ==
    /\ hostOrder \in Hosts
    /\ header = StructHeader(hostOrder)
    /\ \E structs \in FixupSamples, length \in {4, 8} :
       \E fh \in {verifyFileHeader(header, hostOrder).fh} :
       \E r \in {processDNA(GoodTags @@ DnaContent(hostOrder, 2, 2),
                            12 + 16 + fh["pointerSize"])} :
       \E members \in {materialized(structs, 1)} :
       \E scanned \in {ScannedBlocks(hostOrder, fh["pointerSize"], r.end, <<>>,
                                     Len(structs), 8, 2)} :
       \E slist \in {[i \in 1..Len(structs) |->
                         [NewStruct(structs[i].stype, <<>>) EXCEPT
                             !.members =
                                 [j \in 1..Len(structs[i].members) |->
                                     Len(members) - Len(materialized(structs, i)) + j]]]} :
          /\ fileHeader = fh
          /\ heap = members
          /\ blockHeaders =
                referred([scanned EXCEPT
                             ![2] = ("structData" :> slist)
                                    @@ [scanned[2] EXCEPT !.processed = TRUE],
                             ![3].blockLength = length],
                         structs, members, 1)
          /\ dna = r.dna
          /\ dnaIn = [payload |-> GoodTags @@ DnaContent(hostOrder, 2, 2), block |-> 1]
    /\ headersByType = (sDNA1 :> <<1>>) @@ (sDATA :> <<2, 3>>)
    /\ headersByAddress = (3 :> 1) @@ (1 :> 2) @@ (2 :> 3)
    /\ pos = 0
    /\ pc = "fixup"
    /\ exc = NoExc
    /\ thumbnailImage = None
    /\ renderData = <<>>
    /\ scanEnd = "ENDB"
    /\ idx = 1
    /\ build = None
    /\ otherImages = <<>>
    /\ fixupLocals = NoLocals

FixupNext ==
    \/ FixupSkip
    \/ FixupBlock
    \/ FixupEnd
    \/ PassBegin
    \/ PassSkipProcessed
    \/ PassData
    \/ PassEnd
    \/ MemberPrincipal
    \/ BuildEnd

SpecFixup == InitFixup /\ [][FixupNext]_vars

----------------------------------------------------------------------------
(* processFile with every stage of it at work: the run from the start of   *)
(* the file, and the runs that go on from the block lists above, on which   *)
(* the member loop and the inferencer rules have structs to work with       *)

InitStages == Init \/ InitStruct \/ InitFixup

StagesNext ==
    \/ Next
    \/ MemberPrincipal
    \/ MemberFunctionPointer
    \/ MemberUnparsed
    \/ BuildEnd

SpecStages == InitStages /\ [][StagesNext]_vars

----------------------------------------------------------------------------
(* Claims about processFile *)

hBLENDER_v300 == <<"B", "L", "E", "N", "D", "E", "R", "-", "v", "3", "0", "0">>

HasPayload(block) == "structData" \in DOMAIN block

ValidHeader == verifyFileHeader(header, hostOrder).error = "none"

\* C1: on the file BLENDER-v300 + ENDB, read on a little-endian host,
\* processFile raises nothing and returns pointer width 8, byte order
\* little, version 300, no block, no thumbnail, no render info.
C1_EmptyGraphFileCompletes ==
    (header = hBLENDER_v300 /\ hostOrder = "little" /\ scanEnd = "ENDB"
        /\ blockHeaders = <<>>)
    => /\ pc # "raised"
       /\ pc = "done" =>
             /\ fileHeader = [pointerSize |-> 8, byteOrder |-> "little", version |-> 300]
             /\ thumbnailImage = None
             /\ renderData = <<>>

\* C2: once validation of the file header has failed, no block header is
\* ever scanned and the block list, both indexes, the thumbnail and the
\* render-info list stay empty.
C2_InvalidHeaderAborts ==
    (pc # "verify" /\ ~ValidHeader)
    => /\ blockHeaders = <<>>
       /\ headersByType = EmptyDict
       /\ headersByAddress = EmptyDict
       /\ thumbnailImage = None
       /\ renderData = <<>>

\* C5: every block that carries a payload holds exactly numberOfStructs
\* top-level structure instances.
C5_PayloadCountIsRepeatCount ==
    \A i \in 1..Len(blockHeaders) :
        (ValidHeader /\ HasPayload(blockHeaders[i])) =>
            Len(blockHeaders[i].structData) = blockHeaders[i].numberOfStructs

\* a block whose non-zero struct code has no definition in the decoded SDNA
NoStructDef(block) ==
    /\ block.blockCode \notin {sREND, sTEST, sDNA1}
    /\ block.structCode # 0
    /\ dna # Unset
    /\ \/ dna.allStructs = None
       \/ block.structCode \notin 0..(Len(dna.allStructs) - 1)

LookupErrors ==
    {"TypeError: structs[scode]", "IndexError: structs[scode]",
     "TypeError: types[dastruct[0]]", "IndexError: types[dastruct[0]]"}

\* C8: a block whose non-zero struct code has no struct definition does
\* not abort the parse: it stays unprocessed and without payload.
C8_MissingStructIsSkipped ==
    \A i \in 1..Len(blockHeaders) :
        (ValidHeader /\ NoStructDef(blockHeaders[i])) =>
            /\ ~blockHeaders[i].processed
            /\ ~HasPayload(blockHeaders[i])
            /\ ~(pc = "raised" /\ idx = i /\ exc \in LookupErrors)

TagMismatch(p) ==
    \E t \in DOMAIN GoodTags : p[t] # GoodTags[t]

\* C9: after the decoder met a wrong tag in the DNA1 payload the parse is
\* aborted, no table is left loaded and the DNA1 block is not processed.
C9_TagMismatchIsFatal ==
    (ValidHeader /\ dnaIn # None /\ TagMismatch(dnaIn.payload))
    => /\ pc = "raised"
       /\ dna = NewDNA
       /\ ~blockHeaders[dnaIn.block].processed

\* C10: the lookup of a struct definition by its type name succeeds for
\* every struct type the SDNA defines.
C10_ReverseMapLookupSucceeds ==
    \A i \in 1..Len(blockHeaders) :
        (ValidHeader /\ dna # Unset /\ idx = i /\ blockHeaders[i].structCode > 0
            /\ blockDataOutcome(blockHeaders[i], dna) = "sdna")
        => ~(pc = "raised" /\ exc = "AttributeError: getStructCodesByType")

\* C12: after the block-header scan the address index has one entry for
\* every stored header, and maps the old address of each stored header to
\* that header.
C12_AddressIndexIsInjective ==
    (ValidHeader /\ pc \notin {"verify", "scan", "getString"}) =>
        /\ Cardinality(DOMAIN headersByAddress) = Len(blockHeaders)
        /\ \A i \in 1..Len(blockHeaders) :
              headersByAddress[blockHeaders[i].oldPointer] = i

C14_FirstPassStaysInsideBlock ==
    [][(ValidHeader /\ pc = "pass1" /\ idx \in 1..Len(blockHeaders)
           /\ ~blockHeaders[idx].processed /\ blockHeaders[idx].blockLength >= 0)
       => /\ blockHeaders[idx].filePos <= pos'
          /\ pos' <= blockHeaders[idx].filePos + blockHeaders[idx].blockLength
      ]_vars

\* C19: while the scan goes on, the stream is at the end of the payload of
\* the block stored last, a DNA1 block like any other.
C19_NextHeaderFollowsPayload ==
    (ValidHeader /\ pc = "scan" /\ blockHeaders # <<>>) =>
        pos = blockHeaders[Len(blockHeaders)].filePos
              + blockHeaders[Len(blockHeaders)].blockLength

\* C20: every iteration of the scan moves the stream forward, and
\* processFile comes to its end, by returning or by raising.
C20_ProcessFileTerminates ==
    /\ [][(pc = "scan" /\ pc' = "scan") => pos' > pos]_vars
    /\ <>(pc \in {"done", "raised"})

----------------------------------------------------------------------------
(* Claims about the SDNA decoder *)

\* C11: the TYPE table holds the strings of the TYPE section with bScreen,
\* Collection and CollectionObject replaced by Screen, Group and GroupObject
\* and every other string as it is; the NAME table holds the strings of the
\* NAME section as they are; decoding the loaded tables again changes nothing.
C11_OnlyThreeRenames ==
    pc \in {"decoded", "decodedAgain"} =>
        LET p == dnaIn.payload
            renamed(t) ==
                CASE t = <<"b", "S", "c", "r", "e", "e", "n">> ->
                         <<"S", "c", "r", "e", "e", "n">>
                  [] t = <<"C", "o", "l", "l", "e", "c", "t", "i", "o", "n">> ->
                         <<"G", "r", "o", "u", "p">>
                  [] t = <<"C", "o", "l", "l", "e", "c", "t", "i", "o", "n",
                           "O", "b", "j", "e", "c", "t">> ->
                         <<"G", "r", "o", "u", "p", "O", "b", "j", "e", "c", "t">>
                  [] OTHER -> t
        IN  /\ dna.allNames = p.names
            /\ dna.allTypes = [i \in 1..Len(p.types) |-> renamed(p.types[i])]
            /\ pc = "decodedAgain" => dna.allTypes = p.types

\* the tables decoded twice from the names (bScreen, Collection) and types
\* that were renamed to (Screen, GroupObject)
C11_Witness ==
    /\ pc = "decodedAgain"
    /\ dna.allNames = <<sbScreen, <<"C", "o", "l", "l", "e", "c", "t", "i", "o", "n">>>>
    /\ dna.allTypes = <<<<"S", "c", "r", "e", "e", "n">>,
                        <<"G", "r", "o", "u", "p", "O", "b", "j", "e", "c", "t">>>>

----------------------------------------------------------------------------
(* Claims about the member loop of __buildStruct *)

\* the pointers a member value holds, as a scalar or as array elements
RECURSIVE PointersOf(_)
PointersOf(value) ==
    IF value.k = "ptr" THEN {value}
    ELSE IF value.k = "list"
    THEN UNION {PointersOf(value.v[i]) : i \in 1..Len(value.v)}
    ELSE {}

\* the members of the instances stored on the blocks, as
\* [member, owner]: a StructMember and the Struct whose list holds it
Materialized ==
    UNION {UNION {{[member |-> heap[blockHeaders[b].structData[s].members[m]],
                    id |-> blockHeaders[b].structData[s].members[m],
                    owner |-> blockHeaders[b].structData[s]] :
                      m \in 1..Len(blockHeaders[b].structData[s].members)} :
                  s \in 1..Len(blockHeaders[b].structData)} :
           b \in {i \in 1..Len(blockHeaders) : HasPayload(blockHeaders[i])}}

LastInstanceBuilt ==
    /\ InBuild
    /\ build.mi = Len(build.daspecs) + 1
    /\ Len(build.slist) + 1 >= blockHeaders[build.block].numberOfStructs

IntegerTypes ==
    {schar, suchar, sshort, sushort, sint, slong, sulong, sint64_t, suint64_t}

SignedTypes == {schar, sshort, sint, slong, sint64_t}

RECURSIVE NestOfBytes(_, _)
NestOfBytes(value, dimensions) ==
    IF dimensions = <<>> THEN value.k = "int"
    ELSE /\ value.k = "list"
         /\ Len(value.v) = dimensions[1]
         /\ \A i \in 1..Len(value.v) : NestOfBytes(value.v[i], Tail(dimensions))

----------------------------------------------------------------------------
(* Claims about __fixupBlocks on materialized structs *)

\* __fixupBlocks has gone past block i
Inferred(i) == pc = "done" \/ pc = "pass2" \/ InBuild \/ (pc = "fixup" /\ idx > i)

----------------------------------------------------------------------------
(* Claims about the stages of processFile together *)

\* the number of back-references registered on the blocks
Registered(hdrs) ==
    SumSeq([i \in 1..Len(hdrs) |-> Len(hdrs[i].references.referringMembers)])

\* the pointer reads of the step that have a block to refer to
ResolvedReads ==
    IF InBuild /\ build' # None /\ build'.mi = build.mi + 1
          /\ build'.lastRead.member # 0
          /\ heap'[build'.lastRead.member].isPointer
    THEN {k \in DOMAIN build'.lastRead.raws :
             getUint(build'.lastRead.raws[k]) \in DOMAIN headersByAddress}
    ELSE {}

\* the block the step reads the data of
Decoding == IF InBuild THEN build.block ELSE idx

\* C21: in every step of processFile the block list keeps its blocks, a
\* processed flag stays true once it is true, a processed block changes in
\* nothing but the back-references others leave on it, and a payload stays
\* the payload it was: what is read from a block (render records, the
\* thumbnail, members and their back-references) is read from a block that
\* is not processed, which is processed when the reading is done; a step
\* registers one back-reference for each pointer it reads that has a
\* block, with the handle of the member read.
C21_BlocksDecodedOnce ==
    [][/\ Len(blockHeaders') >= Len(blockHeaders)
       /\ \A i \in 1..Len(blockHeaders) :
             LET old == blockHeaders[i]
                 new == blockHeaders'[i]
                 n == Len(old.references.referringMembers)
             IN  /\ old.processed => new.processed
                 /\ old.processed => DOMAIN new = DOMAIN old
                 /\ old.processed =>
                        \A f \in DOMAIN old \ {"references"} : new[f] = old[f]
                 /\ HasPayload(old) => old.processed
                 /\ (HasPayload(new) /\ ~HasPayload(old)) =>
                        ~old.processed /\ new.processed /\ i = Decoding
                 /\ Len(new.references.referringMembers) >= n
                 /\ SubSeq(new.references.referringMembers, 1, n)
                        = old.references.referringMembers
                 /\ old.references.quickRefs \subseteq new.references.quickRefs
                 /\ \A k \in (n + 1)..Len(new.references.referringMembers) :
                        new.references.referringMembers[k] = build'.lastRead.member
       /\ Registered(blockHeaders') =
              Registered(blockHeaders) + Cardinality(ResolvedReads)
       /\ renderData' # renderData =>
              /\ AtBlock
              /\ blockHeaders[idx].blockCode = sREND
              /\ ~blockHeaders[idx].processed
              /\ blockHeaders'[idx].processed
              /\ Len(renderData') =
                     Len(renderData) + Max(blockHeaders[idx].numberOfStructs, 0)
              /\ SubSeq(renderData', 1, Len(renderData)) = renderData
       /\ thumbnailImage' # thumbnailImage =>
              /\ AtBlock
              /\ ~blockHeaders[idx].processed
              /\ blockHeaders'[idx].processed
       /\ heap' # heap =>
              /\ Decoding \in 1..Len(blockHeaders)
              /\ ~blockHeaders[Decoding].processed
      ]_vars

\* processFile has ended on a file whose render records the first pass has
\* read and whose REND block the second pass has passed over
C21_Witness ==
    /\ pc = "done"
    /\ renderData # <<>>
    /\ \E i \in 1..Len(blockHeaders) :
          /\ blockHeaders[i].blockCode = sREND
          /\ blockHeaders[i].processed
          /\ Len(renderData) = blockHeaders[i].numberOfStructs

====
